---- MODULE Spec2Model ----
(***************************************************************************)
(* ensure-update (src/main.rs): refresh a git working copy when the        *)
(* recorded time of its last update is older than max_age hours.           *)
(*                                                                         *)
(* One run of the tool is the sequence of steps of run(): get_name, load,  *)
(* the freshness check, set_current_dir, the update command, the insert    *)
(* of the new timestamp and the store.  Each step is one action; the wall  *)
(* clock advances between steps.  Spec runs the tool several times in      *)
(* sequence (one process at a time); SpecConc runs two processes against   *)
(* the same storage location with every interleaving of their steps.       *)
(***************************************************************************)
EXTENDS Integers, Sequences, FiniteSets, TLC

VARIABLES
    disk,             \* the persisted table of the storage location
    now,              \* the wall clock, in model time units
    pc,               \* pc[p]: the step process p is about to execute
    opts,             \* opts[p]: the parsed command line (struct Opts)
    repository_name,  \* run(): let repository_name
    table,            \* run(): let mut table
    cwd,              \* the working directory of process p
    result,           \* what run() returned ("none" while it is running)
    exit_code,        \* the exit code of process p (-1 while it is running)
    log,              \* history: the steps p has executed, in order, each
                      \* with its outcome and the directory it ran in
    cmd_status,       \* history: how update_command.status() ended
    loaded,           \* history: the table as load() returned it
    disk0,            \* history: the persisted table when the run started
    checked_at,       \* history: the clock when is_recent read it
    was_recent,       \* history: what is_recent returned
    cmd_done_at,      \* history: the clock when the update command returned
    seen_stores,      \* history: the processes that had stored when p loaded
    runs,             \* how many runs process p has started
    last,             \* history: the last successful store (key, stamp, path)
    prev              \* history: last, as it was when the run of p started

vars == <<disk, now, pc, opts, repository_name, table, cwd, result, exit_code,
          log, cmd_status, loaded, disk0, checked_at, was_recent,
          cmd_done_at, seen_stores, runs, last, prev>>

-----------------------------------------------------------------------------
(* Bounds of the model *)

MaxTime == 3
MaxRuns == 2
MaxConcTime == 1

(* Model time unit: half an hour, so that durations below, at and above a  *)
(* whole number of hours are all representable.                            *)
UnitsPerHour == 2

Procs == {1, 2}
Time == 0..MaxTime

-----------------------------------------------------------------------------
(* Paths.  A path is a sequence of components, a component is a sequence   *)
(* of bytes (an OsStr).  Bytes are ASCII or 0xFE / 0xFF, which never occur *)
(* in valid UTF-8.                                                         *)

seg_a == <<97>>
seg_b == <<98>>
seg_foo == <<102, 111, 111>>
seg_bad == <<102, 255>>
seg_file == <<120>>
seg_gone == <<103>>
seg_home == <<104>>

Root == << >>
RepoFoo == <<seg_a, seg_foo>>
RepoFooB == <<seg_b, seg_foo>>
RepoBad == <<seg_a, seg_bad>>
RegularFile == <<seg_a, seg_file>>
Missing == <<seg_a, seg_gone>>
InitialDir == <<seg_home>>

Directories == {Root, <<seg_a>>, <<seg_b>>, InitialDir, RepoFoo, RepoFooB, RepoBad}

Repos == {RepoFoo, RepoFooB, RepoBad, Root, RegularFile, Missing}
Ages == {0 - 1, 0, 1}

ConcRepos == {RepoFoo, RepoBad}
ConcAges == {0}

(* Option<&OsStr> as a sequence: << >> is None, <<x>> is Some(x). *)
is_dir(path) == path \in Directories

file_name(path) ==
    IF Len(path) = 0 THEN << >> ELSE <<path[Len(path)]>>

to_string_lossy(name) ==
    [i \in 1..Len(name) |-> IF name[i] < 128 THEN name[i] ELSE 65533]

RECURSIVE JoinPath(_)
JoinPath(path) ==
    IF Len(path) = 0 THEN << >>
    ELSE <<47>> \o path[1] \o JoinPath(Tail(path))

(* get_name: Err(NotFound, message) or Ok(name).  The empty string stands  *)
(* for "no name" in the error case.                                        *)
get_name_whole_path(repository) ==
    IF ~is_dir(repository)
        THEN [ok |-> FALSE, err |-> "not a directory", name |-> << >>]
    ELSE IF file_name(repository) = << >>
        THEN [ok |-> FALSE, err |-> "did you attempt to update root?", name |-> << >>]
    ELSE [ok |-> TRUE, err |-> "", name |-> to_string_lossy(JoinPath(repository))]

get_name(repository) ==
    IF ~is_dir(repository)
        THEN [ok |-> FALSE, err |-> "not a directory", name |-> << >>]
    ELSE IF file_name(repository) = << >>
        THEN [ok |-> FALSE, err |-> "did you attempt to update root?", name |-> << >>]
    ELSE [ok |-> TRUE, err |-> "", name |-> to_string_lossy(file_name(repository)[1])]

-----------------------------------------------------------------------------
(* The table: HashMap<String, Timestamp> as a function on its key set. *)

Abs(x) == IF x < 0 THEN 0 - x ELSE x

from_hours(h) == h * UnitsPerHour

is_recent_inclusive(t, name, max_age, clock) ==
    IF name \notin DOMAIN t THEN FALSE
    ELSE from_hours(max_age) >= Abs(clock - t[name])

is_recent(t, name, max_age, clock) ==
    IF name \notin DOMAIN t THEN FALSE
    ELSE LET elapsed == Abs(clock - t[name])
         IN  from_hours(max_age) > elapsed

insert_fresh(t, name, stamp) == [k \in {name} |-> stamp]

insert(t, name, stamp) ==
    [k \in DOMAIN t \cup {name} |-> IF k = name THEN stamp ELSE t[k]]

Keys == {to_string_lossy(seg_foo), to_string_lossy(seg_bad)}

InitTables == UNION {[ks -> {0, MaxTime}] : ks \in SUBSET Keys}

-----------------------------------------------------------------------------
NoOpts == [repository |-> Root, max_age |-> 0, force |-> FALSE]
EmptyTable == << >>
NoStore == [key |-> << >>, stamp |-> 0, path |-> Root]

Init ==
    /\ disk \in InitTables
    /\ now = 0
    /\ pc = [p \in Procs |-> "idle"]
    /\ opts = [p \in Procs |-> NoOpts]
    /\ repository_name = [p \in Procs |-> << >>]
    /\ table = [p \in Procs |-> EmptyTable]
    /\ cwd = [p \in Procs |-> InitialDir]
    /\ result = [p \in Procs |-> "none"]
    /\ exit_code = [p \in Procs |-> 0 - 1]
    /\ log = [p \in Procs |-> << >>]
    /\ cmd_status = [p \in Procs |-> "none"]
    /\ loaded = [p \in Procs |-> EmptyTable]
    /\ disk0 = [p \in Procs |-> EmptyTable]
    /\ checked_at = [p \in Procs |-> 0]
    /\ was_recent = [p \in Procs |-> FALSE]
    /\ cmd_done_at = [p \in Procs |-> 0]
    /\ seen_stores = [p \in Procs |-> {}]
    /\ runs = [p \in Procs |-> 0]
    /\ last = NoStore
    /\ prev = [p \in Procs |-> NoStore]

-----------------------------------------------------------------------------
(* main(): run() returned; an Err is printed and the process exits 1, an   *)
(* Ok lets main return, which is exit code 0.                              *)

IsErr(res) == res \notin {"none", "skipped", "updated"}

ExitCodeStoreIgnored(res) == IF IsErr(res) /\ res # "store failed" THEN 1 ELSE 0

ExitCode(res) == IF IsErr(res) THEN 1 ELSE 0

Exit(p, res) ==
    /\ pc' = [pc EXCEPT ![p] = "done"]
    /\ result' = [result EXCEPT ![p] = res]
    /\ exit_code' = [exit_code EXCEPT ![p] = ExitCode(res)]

Goto(p, label) ==
    /\ pc' = [pc EXCEPT ![p] = label]
    /\ UNCHANGED <<result, exit_code>>

Logged(p, step, ok) ==
    log' = [log EXCEPT ![p] = Append(@, [step |-> step, ok |-> ok, dir |-> cwd[p]])]

(* A process is started with a parsed command line: Opts::parse().  The    *)
(* verbose flag only selects where the child's standard output goes (lines *)
(* 71-73), which is no state of this model, so opts does not carry it.     *)
Launch(p, repos, ages) ==
    /\ runs[p] < MaxRuns
    /\ \E r \in repos, a \in ages, f \in BOOLEAN :
          opts' = [opts EXCEPT ![p] = [repository |-> r, max_age |-> a, force |-> f]]
    /\ pc' = [pc EXCEPT ![p] = "get_name"]
    /\ runs' = [runs EXCEPT ![p] = @ + 1]
    /\ repository_name' = [repository_name EXCEPT ![p] = << >>]
    /\ table' = [table EXCEPT ![p] = EmptyTable]
    /\ cwd' = [cwd EXCEPT ![p] = InitialDir]
    /\ result' = [result EXCEPT ![p] = "none"]
    /\ exit_code' = [exit_code EXCEPT ![p] = 0 - 1]
    /\ log' = [log EXCEPT ![p] = << >>]
    /\ cmd_status' = [cmd_status EXCEPT ![p] = "none"]
    /\ loaded' = [loaded EXCEPT ![p] = EmptyTable]
    /\ disk0' = [disk0 EXCEPT ![p] = disk]
    /\ checked_at' = [checked_at EXCEPT ![p] = 0]
    /\ was_recent' = [was_recent EXCEPT ![p] = FALSE]
    /\ cmd_done_at' = [cmd_done_at EXCEPT ![p] = 0]
    /\ seen_stores' = [seen_stores EXCEPT ![p] = {}]
    /\ prev' = [prev EXCEPT ![p] = last]
    /\ UNCHANGED <<disk, now, last>>

(* Sequential use: the tool is started, and started again once it exited. *)
Start(p) ==
    /\ pc[p] \in {"idle", "done"}
    /\ Launch(p, Repos, Ages)

(* Concurrent use: each process runs the tool once. *)
StartConc(p) ==
    /\ pc[p] = "idle"
    /\ Launch(p, ConcRepos, ConcAges)

(* line 44: let repository_name = get_name(&opts.repository)?; *)
GetNameErrorIgnored(p) ==
    /\ pc[p] = "get_name"
    /\ LET r == get_name(opts[p].repository)
       IN  /\ repository_name' = [repository_name EXCEPT ![p] = r.name]
           /\ Goto(p, "load")
           /\ Logged(p, "get_name", r.ok)
    /\ UNCHANGED <<disk, now, opts, table, cwd, cmd_status, loaded, disk0,
                   checked_at, was_recent, cmd_done_at, seen_stores, runs,
                   last, prev>>

GetName(p) ==
    /\ pc[p] = "get_name"
    /\ LET r == get_name(opts[p].repository)
       IN  /\ IF r.ok
                THEN /\ repository_name' = [repository_name EXCEPT ![p] = r.name]
                     /\ Goto(p, "load")
                ELSE /\ Exit(p, "NotFound")
                     /\ UNCHANGED repository_name
           /\ Logged(p, "get_name", r.ok)
    /\ UNCHANGED <<disk, now, opts, table, cwd, cmd_status, loaded, disk0,
                   checked_at, was_recent, cmd_done_at, seen_stores, runs,
                   last, prev>>

(* lines 45-50: let mut table = provider.load()?.into_inner(); *)
StoredBy == {q \in Procs : result[q] = "updated"}

LoadEmpty(p) ==
    /\ pc[p] = "load"
    /\ \/ /\ table' = [table EXCEPT ![p] = EmptyTable]
          /\ loaded' = [loaded EXCEPT ![p] = disk]
          /\ seen_stores' = [seen_stores EXCEPT ![p] = StoredBy]
          /\ Goto(p, "check")
          /\ Logged(p, "load", TRUE)
       \/ /\ Exit(p, "load failed")
          /\ Logged(p, "load", FALSE)
          /\ UNCHANGED <<table, loaded, seen_stores>>
    /\ UNCHANGED <<disk, now, opts, repository_name, cwd, cmd_status, disk0,
                   checked_at, was_recent, cmd_done_at, runs, last, prev>>

Load(p) ==
    /\ pc[p] = "load"
    /\ \/ /\ table' = [table EXCEPT ![p] = disk]
          /\ loaded' = [loaded EXCEPT ![p] = disk]
          /\ seen_stores' = [seen_stores EXCEPT ![p] = StoredBy]
          /\ Goto(p, "check")
          /\ Logged(p, "load", TRUE)
       \/ /\ Exit(p, "load failed")
          /\ Logged(p, "load", FALSE)
          /\ UNCHANGED <<table, loaded, seen_stores>>
    /\ UNCHANGED <<disk, now, opts, repository_name, cwd, cmd_status, disk0,
                   checked_at, was_recent, cmd_done_at, runs, last, prev>>

(* lines 57-59: if is_recent(..) && !opts.force { return Ok(()); } *)
CheckForceIgnored(p) ==
    /\ pc[p] = "check"
    /\ LET recent == is_recent(table[p], repository_name[p], opts[p].max_age, now)
       IN  /\ was_recent' = [was_recent EXCEPT ![p] = recent]
           /\ IF recent THEN Exit(p, "skipped") ELSE Goto(p, "chdir")
    /\ checked_at' = [checked_at EXCEPT ![p] = now]
    /\ Logged(p, "check", TRUE)
    /\ UNCHANGED <<disk, now, opts, repository_name, table, cwd, cmd_status,
                   loaded, disk0, cmd_done_at, seen_stores, runs, last, prev>>

CheckTouchesTable(p) ==
    /\ pc[p] = "check"
    /\ LET recent == is_recent(table[p], repository_name[p], opts[p].max_age, now)
       IN  /\ was_recent' = [was_recent EXCEPT ![p] = recent]
           /\ IF recent /\ ~opts[p].force THEN Exit(p, "skipped") ELSE Goto(p, "chdir")
    /\ table' = [table EXCEPT ![p] = insert(@, repository_name[p], now)]
    /\ checked_at' = [checked_at EXCEPT ![p] = now]
    /\ Logged(p, "check", TRUE)
    /\ UNCHANGED <<disk, now, opts, repository_name, cwd, cmd_status,
                   loaded, disk0, cmd_done_at, seen_stores, runs, last, prev>>

Check(p) ==
    /\ pc[p] = "check"
    /\ LET recent == is_recent(table[p], repository_name[p], opts[p].max_age, now)
       IN  /\ was_recent' = [was_recent EXCEPT ![p] = recent]
           /\ IF recent /\ ~opts[p].force THEN Exit(p, "skipped") ELSE Goto(p, "chdir")
    /\ checked_at' = [checked_at EXCEPT ![p] = now]
    /\ Logged(p, "check", TRUE)
    /\ UNCHANGED <<disk, now, opts, repository_name, table, cwd, cmd_status,
                   loaded, disk0, cmd_done_at, seen_stores, runs, last, prev>>

(* line 63: std::env::set_current_dir(&opts.repository)?; *)
Chdir(p) ==
    /\ pc[p] = "chdir"
    /\ \/ /\ cwd' = [cwd EXCEPT ![p] = opts[p].repository]
          /\ Goto(p, "command")
          /\ Logged(p, "set_current_dir", TRUE)
       \/ /\ Exit(p, "chdir failed")
          /\ Logged(p, "set_current_dir", FALSE)
          /\ UNCHANGED cwd
    /\ UNCHANGED <<disk, now, opts, repository_name, table, cmd_status, loaded,
                   disk0, checked_at, was_recent, cmd_done_at, seen_stores,
                   runs, last, prev>>

(* lines 66-78: build the command, run it (git pull), look at its status. *)
RunCommandStatusIgnored(p) ==
    /\ pc[p] = "command"
    /\ \E st \in {"spawn error", "failure", "success"} :
          /\ cmd_status' = [cmd_status EXCEPT ![p] = st]
          /\ IF st = "spawn error" THEN Exit(p, "spawn failed") ELSE Goto(p, "insert")
          /\ Logged(p, "command", st = "success")
    /\ cmd_done_at' = [cmd_done_at EXCEPT ![p] = now]
    /\ UNCHANGED <<disk, now, opts, repository_name, table, cwd, loaded, disk0,
                   checked_at, was_recent, seen_stores, runs, last, prev>>

RunCommand(p) ==
    /\ pc[p] = "command"
    /\ \E st \in {"spawn error", "failure", "success"} :
          /\ cmd_status' = [cmd_status EXCEPT ![p] = st]
          /\ CASE st = "spawn error" -> Exit(p, "spawn failed")
               [] st = "failure" -> Exit(p, "repository failed to update")
               [] st = "success" -> Goto(p, "insert")
          /\ Logged(p, "command", st = "success")
    /\ cmd_done_at' = [cmd_done_at EXCEPT ![p] = now]
    /\ UNCHANGED <<disk, now, opts, repository_name, table, cwd, loaded, disk0,
                   checked_at, was_recent, seen_stores, runs, last, prev>>

(* line 84: table.insert(repository_name, Timestamp::now()); *)
Insert(p) ==
    /\ pc[p] = "insert"
    /\ table' = [table EXCEPT ![p] = insert(@, repository_name[p], now)]
    /\ Goto(p, "store")
    /\ Logged(p, "insert", TRUE)
    /\ UNCHANGED <<disk, now, opts, repository_name, cwd, cmd_status, loaded,
                   disk0, checked_at, was_recent, cmd_done_at, seen_stores,
                   runs, last, prev>>

(* lines 85-87: provider.store(table)?; Ok(()) *)
Store(p) ==
    /\ pc[p] = "store"
    /\ \/ /\ disk' = table[p]
          /\ last' = [key |-> repository_name[p],
                      stamp |-> table[p][repository_name[p]],
                      path |-> opts[p].repository]
          /\ Exit(p, "updated")
          /\ Logged(p, "store", TRUE)
       \/ /\ Exit(p, "store failed")
          /\ Logged(p, "store", FALSE)
          /\ UNCHANGED <<disk, last>>
    /\ UNCHANGED <<now, opts, repository_name, table, cwd, cmd_status, loaded,
                   disk0, checked_at, was_recent, cmd_done_at, seen_stores,
                   runs, prev>>

(* The wall clock advances, up to the bound. *)
Advance(bound) ==
    /\ now < bound
    /\ now' = now + 1
    /\ UNCHANGED <<disk, pc, opts, repository_name, table, cwd, result,
                   exit_code, log, cmd_status, loaded, disk0, checked_at,
                   was_recent, cmd_done_at, seen_stores, runs, last, prev>>

Tick == Advance(MaxTime)

TickConc == Advance(MaxConcTime)

Step(p) ==
    \/ GetName(p)
    \/ Load(p)
    \/ Check(p)
    \/ Chdir(p)
    \/ RunCommand(p)
    \/ Insert(p)
    \/ Store(p)

(* The tool is run, and run again, by one process at a time. *)
Next ==
    \/ Tick
    \/ Start(1)
    \/ Step(1)

Spec == Init /\ [][Next]_vars

(* Two processes run the tool against the same storage location. *)
NextConc ==
    \/ TickConc
    \/ \E p \in Procs : StartConc(p) \/ Step(p)

SpecConc == Init /\ [][NextConc]_vars

-----------------------------------------------------------------------------
(* Vocabulary of the properties *)

Did(p, step) == \E i \in DOMAIN log[p] : log[p][i].step = step

DidOk(p, step) == \E i \in DOMAIN log[p] : log[p][i].step = step /\ log[p][i].ok

Count(p, step) == Cardinality({i \in DOMAIN log[p] : log[p][i].step = step})

Threshold(p) == opts[p].max_age * UnitsPerHour

RunOrder == <<"get_name", "load", "check", "set_current_dir", "command", "insert", "store">>

SameFinalSegment(path1, path2) ==
    /\ file_name(path1) # << >>
    /\ file_name(path1) = file_name(path2)

-----------------------------------------------------------------------------
(* C1: a run whose update command exits with a non-success status fails    *)
(* with the update-failed error and exit code 1, inserts nothing and       *)
(* stores nothing, so the persisted table is the one the run started with; *)
(* and a run reaches the store only after its update command succeeded.    *)
C1_FailedUpdateNotStored ==
    \A p \in Procs :
        /\ cmd_status[p] = "failure" =>
              /\ pc[p] = "done"
              /\ result[p] = "repository failed to update"
              /\ exit_code[p] = 1
              /\ ~Did(p, "insert")
              /\ ~Did(p, "store")
              /\ table[p] = loaded[p]
              /\ disk = disk0[p]
        /\ Did(p, "store") => cmd_status[p] = "success"

C1_Witness ==
    \E p \in Procs :
        /\ cmd_status[p] = "failure"
        /\ pc[p] = "done"
        /\ repository_name[p] \notin DOMAIN disk
        /\ disk # EmptyTable

(* C2: the repository is due (is_recent returned false) exactly when the   *)
(* table has no entry for the name or the absolute distance between the    *)
(* stored timestamp and the clock is at least max_age hours; a timestamp d *)
(* in the future gives the same answer as one d in the past.               *)
C2_DueExactly ==
    \A p \in Procs :
        Did(p, "check") =>
            LET K == repository_name[p]
                t == loaded[p]
                C == checked_at[p]
            IN  /\ (~was_recent[p]) <=>
                      (K \notin DOMAIN t \/ Abs(C - t[K]) >= Threshold(p))
                /\ \A d \in Time :
                      is_recent([k \in {K} |-> C - d], K, opts[p].max_age, C)
                        = is_recent([k \in {K} |-> C + d], K, opts[p].max_age, C)

(* a stored timestamp in the future, exactly max_age hours away: due *)
C2_Witness ==
    \E p \in Procs :
        /\ Did(p, "check")
        /\ repository_name[p] \in DOMAIN loaded[p]
        /\ opts[p].max_age = 1
        /\ loaded[p][repository_name[p]] - checked_at[p] = Threshold(p)
        /\ ~was_recent[p]

(* C3, as claimed: with the force flag set, once the name is resolved and  *)
(* the table loaded, the run always invokes the update command.            *)
C3_ForceAlwaysInvokes ==
    \A p \in Procs :
        (pc[p] = "done" /\ opts[p].force /\ DidOk(p, "get_name") /\ DidOk(p, "load"))
            => Did(p, "command")

(* C3, amended: with the force flag set, once the name is resolved and the *)
(* table loaded, the freshness check never ends the run as a skip: the run *)
(* goes on to change directory, and invokes the update command whenever    *)
(* the change of directory succeeds.                                       *)
C3_ForceNeverSkips ==
    \A p \in Procs :
        (pc[p] = "done" /\ opts[p].force /\ DidOk(p, "get_name") /\ DidOk(p, "load"))
            => /\ result[p] # "skipped"
               /\ Did(p, "set_current_dir")
               /\ DidOk(p, "set_current_dir") => Did(p, "command")

(* forced, the stored timestamp is the current time, and the command ran *)
C3_Witness ==
    \E p \in Procs :
        /\ pc[p] = "done"
        /\ opts[p].force
        /\ was_recent[p]
        /\ repository_name[p] \in DOMAIN loaded[p]
        /\ loaded[p][repository_name[p]] = checked_at[p]
        /\ Did(p, "command")

(* C4: a run that finds the repository recent, without the force flag,     *)
(* ends as a skip with exit code 0: no change of directory, no update      *)
(* command, no insert, no store; the table in memory is the loaded one and *)
(* the persisted table is the one the run started with.                    *)
C4_SkipChangesNothing ==
    \A p \in Procs :
        (Did(p, "check") /\ was_recent[p] /\ ~opts[p].force) =>
            /\ pc[p] = "done"
            /\ result[p] = "skipped"
            /\ exit_code[p] = 0
            /\ ~Did(p, "set_current_dir")
            /\ ~Did(p, "command")
            /\ ~Did(p, "insert")
            /\ ~Did(p, "store")
            /\ cwd[p] = InitialDir
            /\ table[p] = loaded[p]
            /\ disk = disk0[p]

C4_Witness ==
    \E p \in Procs :
        /\ Did(p, "check")
        /\ was_recent[p]
        /\ ~opts[p].force
        /\ pc[p] = "done"
        /\ Cardinality(DOMAIN disk) = 2

(* C5: after a run that updated successfully, the persisted table is the   *)
(* table loaded at the start with exactly the entry of the resolved name   *)
(* inserted or replaced, by a timestamp read after the update command      *)
(* returned; every other key keeps its timestamp, none is removed, and the *)
(* table was mutated once.                                                 *)
C5_StoreIsLoadedPlusOne ==
    \A p \in Procs :
        result[p] = "updated" =>
            LET K == repository_name[p]
            IN  /\ loaded[p] = disk0[p]
                /\ disk = table[p]
                /\ DOMAIN disk = DOMAIN loaded[p] \cup {K}
                /\ \A k \in DOMAIN loaded[p] : k # K => disk[k] = loaded[p][k]
                /\ disk[K] >= cmd_done_at[p]
                /\ disk[K] <= now
                /\ Count(p, "insert") = 1
                /\ Count(p, "store") = 1

(* another key was loaded, and the clock moved before the timestamp was read *)
C5_Witness ==
    \E p \in Procs :
        /\ result[p] = "updated"
        /\ DOMAIN loaded[p] \ {repository_name[p]} # {}
        /\ repository_name[p] \in DOMAIN loaded[p]
        /\ disk[repository_name[p]] > cmd_done_at[p]

(* C6: a run ends with exit code 0 or 1; 0 exactly when it was skipped as  *)
(* not due, or its update command succeeded and its store succeeded; 1     *)
(* when any step failed.  A run that has not ended can take its next step, *)
(* and a run has at most seven steps.                                      *)
C6_ExitCodes ==
    \A p \in Procs :
        /\ pc[p] = "done" =>
              /\ exit_code[p] \in {0, 1}
              /\ exit_code[p] = 0 <=>
                    \/ (was_recent[p] /\ ~opts[p].force /\ ~Did(p, "set_current_dir"))
                    \/ (cmd_status[p] = "success" /\ DidOk(p, "store"))
              /\ exit_code[p] = 1 <=>
                    \E i \in DOMAIN log[p] : ~log[p][i].ok
        /\ pc[p] \notin {"idle", "done"} =>
              /\ exit_code[p] = 0 - 1
              /\ ENABLED Step(p)
        /\ Len(log[p]) <= Len(RunOrder)

(* the update command succeeded, the store failed: exit code 1 *)
C6_Witness ==
    \E p \in Procs :
        /\ pc[p] = "done"
        /\ cmd_status[p] = "success"
        /\ Did(p, "store")
        /\ ~DidOk(p, "store")
        /\ exit_code[p] = 1

(* C7: once the working directory has been changed to the repository, no   *)
(* step other than the update command runs in the changed directory.       *)
C7_OnlyCommandInChangedDir ==
    \A p \in Procs :
        \A i \in DOMAIN log[p] :
            log[p][i].dir # InitialDir => log[p][i].step = "command"

(* C8: two processes updating different repositories against the same      *)
(* storage location, both ending with exit code 0.  If one of them stored  *)
(* before the other loaded, the persisted table holds both new timestamps; *)
(* a new timestamp is missing only if both loaded before either stored,    *)
(* and then the one of the last writer is there.                           *)
BothUpdated(p, q) ==
    /\ p # q
    /\ result[p] = "updated" /\ result[q] = "updated"
    /\ exit_code[p] = 0 /\ exit_code[q] = 0
    /\ repository_name[p] # repository_name[q]

NewStamp(p) == table[p][repository_name[p]]

Kept(p) ==
    /\ repository_name[p] \in DOMAIN disk
    /\ disk[repository_name[p]] = NewStamp(p)

Overlapped(p, q) == q \notin seen_stores[p] /\ p \notin seen_stores[q]

C8_SequentialRunsKeepBoth ==
    \A p, q \in Procs :
        BothUpdated(p, q) =>
            /\ ~Overlapped(p, q) => (Kept(p) /\ Kept(q))
            /\ Kept(p) \/ Kept(q)

(* both loaded before either stored, and one new timestamp is gone *)
C8_Witness ==
    \E p, q \in Procs :
        /\ BothUpdated(p, q)
        /\ Overlapped(p, q)
        /\ Kept(p)
        /\ repository_name[q] \notin DOMAIN disk

(* C9: the steps of a run are taken in the order get_name, load, check,    *)
(* set_current_dir, command, insert, store, each at most once; a step that *)
(* fails is the last one of the run.                                       *)
C9_StepsInOrder ==
    \A p \in Procs :
        /\ Len(log[p]) <= Len(RunOrder)
        /\ \A i \in DOMAIN log[p] :
              /\ log[p][i].step = RunOrder[i]
              /\ ~log[p][i].ok => (i = Len(log[p]) /\ pc[p] = "done")
        /\ Count(p, "command") <= 1
        /\ Count(p, "store") <= 1

(* the name was not resolved: nothing else ran *)
C9_Witness ==
    \E p \in Procs :
        /\ pc[p] = "done"
        /\ Did(p, "get_name")
        /\ ~DidOk(p, "get_name")
        /\ Len(log[p]) = 1
        /\ exit_code[p] = 1

(* C10: after a run stored timestamp T for a repository, a later run       *)
(* without the force flag, on a directory with the same final segment,     *)
(* that reads the clock at C with |C - T| below max_age hours, is skipped  *)
(* and does not invoke the update command.                                 *)
C10_SameSegmentSkipped ==
    \A p \in Procs :
        ( /\ prev[p].key # << >>
          /\ Did(p, "check")
          /\ ~opts[p].force
          /\ SameFinalSegment(opts[p].repository, prev[p].path)
          /\ Abs(checked_at[p] - prev[p].stamp) < Threshold(p) )
        => /\ result[p] = "skipped"
           /\ ~Did(p, "set_current_dir")
           /\ ~Did(p, "command")

(* the later run names another directory with the same final segment *)
C10_Witness ==
    \E p \in Procs :
        /\ prev[p].key # << >>
        /\ Did(p, "check")
        /\ ~opts[p].force
        /\ SameFinalSegment(opts[p].repository, prev[p].path)
        /\ opts[p].repository # prev[p].path
        /\ Abs(checked_at[p] - prev[p].stamp) < Threshold(p)
        /\ result[p] = "skipped"

====
